---- MODULE Spec2Model ----
(***************************************************************************)
(* Model of the orchestration gateway of src/orchestrator/main.py:         *)
(* the Connection Manager (OrchestratorGlobal), the Tool Router            *)
(* (tool_map, list_tools) and the Tool Invoker (call_tool).                *)
(*                                                                         *)
(* The program runs on one cooperative event loop.  A coroutine runs       *)
(* without interruption from one suspension point (an await that really    *)
(* blocks) to the next.  The variable running holds the request coroutine  *)
(* that is on the loop; while it is set no other coroutine takes a step.   *)
(* Steps of one coroutine between two suspension points are therefore      *)
(* never interleaved with anything else.                                   *)
(***************************************************************************)
EXTENDS Naturals, Sequences, FiniteSets, TLC

\* ------------------------------------------------------------------ bounds
\* How many of the configured services the requests run against.
NumServices == 1
\* How many request handlers (top-level calls) may be started in one run.
MaxCalls == 3
\* The same for the runs with tool calls.
MaxInvokeCalls == 2
\* Chat runs in one run of the model, tool calls the model may ask for in one
\* round, and tool calls it may ask for in one chat run.
MaxChats == 1
MaxRoundCalls == 2
MaxChatCalls == 5
\* Tool-call fragments in one round's stream.
MaxFragments == 3
\* Lines the Transport Bridge reads in one run.
MaxLines == 3
\* Services configured in the runs of start-up followed by discovery, and the
\* calls of such a run (the start-up and the refreshes after it).
NumBootServices == 2
MaxBootCalls == 3

\* --------------------------------------------------------------- constants
None == "none"
NoTask == 0

\* The keys of MCP_SERVICES (lines 27-31), in dictionary order.
AllServices == <<"leave", "loan", "policy">>
Names == {AllServices[k] : k \in 1..Len(AllServices)}
FirstServices(k) == SubSeq(AllServices, 1, IF k < Len(AllServices) THEN k ELSE Len(AllServices))

\* Tool names a downstream service may advertise.  "lookup" is a name that
\* more than one service may declare.
Tools == {"get_leave_balance", "get_loan_details", "lookup"}

\* Request coroutines running on the event loop.
Procs == {"r1", "r2", "r3"}

VARIABLES
    MCP_SERVICES,         \* the services configured at start-up, in order
    service_tasks,        \* name -> task registered for it (NoTask: absent)
    service_stop_events,  \* name -> task whose stop event is registered
    sessions,             \* name -> task whose session is registered
    tool_map,             \* tool name -> service name (None: absent)
    tasks,                \* the connection tasks created so far, by id
    advertised,           \* what each downstream service lists as its tools
    stack,                \* per request coroutine: its call frames, top first
    ret,                  \* per request coroutine: value of the last return
    running,              \* the request coroutine on the event loop, or None
    ncalls,               \* top-level calls started so far
    obs,                  \* per request coroutine: what its tool call did
    bridge,               \* the Transport Bridge process (src/bridge.py)
    chat                  \* the locals of the chat run's event_generator

\* The variables of the orchestrator process.
orch == <<MCP_SERVICES, service_tasks, service_stop_events, sessions, tool_map, tasks,
          advertised, stack, ret, running, ncalls, obs, chat>>

vars == <<MCP_SERVICES, service_tasks, service_stop_events, sessions, tool_map, tasks,
          advertised, stack, ret, running, ncalls, obs, bridge, chat>>

conn == <<service_tasks, service_stop_events, sessions>>

\* ----------------------------------------------------------------- helpers
TaskIds == 1..Len(tasks)

Top(p) == Head(stack[p])

Frame(pc, name, tool, t, i) ==
    [pc |-> pc, name |-> name, tool |-> tool, t |-> t, i |-> i]

\* Values a call hands back: a session (or none), a text, or a raised error.
NoValue == [kind |-> "none", sid |-> NoTask, text |-> ""]
SessionValue(t) ==
    IF t = NoTask THEN NoValue ELSE [kind |-> "session", sid |-> t, text |-> ""]
TextValue(s) == [kind |-> "text", sid |-> NoTask, text |-> s]
RaiseValue(s) == [kind |-> "raise", sid |-> NoTask, text |-> s]

\* What is recorded of a request: the handler it runs, the downstream
\* call_tool attempts it has issued, whether its first attempt met a
\* connection error, the connect_service calls it made after that, and the
\* content the downstream tool answered with, if it answered.
NoObs == [op |-> "idle", calls |-> 0, lost |-> FALSE, reconnects |-> 0,
          answered |-> FALSE, answer |-> <<>>]

\* p is on the event loop and its innermost frame is at pc.
At(p, pc) == /\ running = p
             /\ stack[p] # <<>>
             /\ Top(p).pc = pc

\* p is suspended with its innermost frame at pc and the loop is free.
Suspended(p, pc) == /\ running = None
                    /\ stack[p] # <<>>
                    /\ Top(p).pc = pc

\* Replace the innermost frame of p.
SetTop(p, fr) == [stack EXCEPT ![p] = <<fr>> \o Tail(@)]

\* Replace the innermost frame of p and call into a new frame.
CallFrom(p, fr, callee) == [stack EXCEPT ![p] = <<callee, fr>> \o Tail(@)]

\* The innermost frame of p returns v to its caller, which runs on.
Return(p, v) ==
    /\ stack' = [stack EXCEPT ![p] = Tail(@)]
    /\ ret' = [ret EXCEPT ![p] = v]
    /\ running' = p

\* The handler of request p has returned (or raised) and ret[p] is its outcome.
Done(p) == running = p /\ stack[p] = <<>>

\* ------------------------------------------- Transport Bridge: its state
\* request_data.get("id") of a message without an id (bridge.py line 105).
NoId == 0

\* An inbound line: end of input, a blank line, text that is not JSON, or a
\* JSON-RPC message (a request with an id, or a notification without one).
EndOfInput == [shape |-> "eof", method |-> "", id |-> NoId]
BlankLine == [shape |-> "blank", method |-> "", id |-> NoId]
GarbageLine == [shape |-> "garbage", method |-> "", id |-> NoId]
RequestLine(m, i) == [shape |-> "json", method |-> m, id |-> i]
NotificationLine(m) == [shape |-> "json", method |-> m, id |-> NoId]

\* What the bridge has received from upstream for the message it forwarded.
NoOutcome == [kind |-> "none", status |-> 0, body |-> "", header |-> None]

\* bridge_loop before its first read (bridge.py lines 36-41): no session id.
\* line, posted, sent, outcome and wrote describe the message being handled
\* or handled last; carried is the session header of the most recent
\* response that had one; skipped tells that a line that is not JSON was
\* read and skipped.
BridgeStart ==
    [pc |-> "read", session_id |-> None, line |-> BlankLine, posted |-> FALSE,
     sent |-> None, outcome |-> NoOutcome, wrote |-> 0, out |-> <<>>,
     carried |-> None, nread |-> 0, skipped |-> FALSE]

\* ------------------------------------------------- chat run: its state
\* Line 405: range(5).
MaxRounds == 5

\* Messages of the conversation (lines 385-403, 432-436, 477-481).  An
\* assistant message without tool calls carries none (the empty sequence).
SystemMsg == [role |-> "system", content |-> "You are the HR Assistant", tool_calls |-> <<>>,
              tool_call_id |-> ""]
UserMsg == [role |-> "user", content |-> "How many leave days do I have?",
            tool_calls |-> <<>>, tool_call_id |-> ""]
AssistantMsg(content, calls) ==
    [role |-> "assistant", content |-> IF content = "" THEN None ELSE content,
     tool_calls |-> calls, tool_call_id |-> ""]
ToolMsg(id, content) ==
    [role |-> "tool", content |-> content, tool_calls |-> <<>>, tool_call_id |-> id]

\* event_generator before it runs: round counts the completion calls opened,
\* tool_calls are those accumulated in the current round, mark is the
\* length of the conversation when the round was opened, executed lists the
\* tool calls whose execution (lines 442-481) was started, with their round.
NoChat ==
    [round |-> 0, tool_calls |-> <<>>, conversation |-> <<>>, mark |-> 0,
     executed |-> <<>>]

\* ------------------------------------------------------------------- Init
\* OrchestratorGlobal.__init__: all four dictionaries empty.
Configured == {MCP_SERVICES[k] : k \in 1..Len(MCP_SERVICES)}

Init ==
    /\ MCP_SERVICES = FirstServices(NumServices)
    /\ service_tasks = [n \in Names |-> NoTask]
    /\ service_stop_events = [n \in Names |-> NoTask]
    /\ sessions = [n \in Names |-> NoTask]
    /\ tool_map = [x \in Tools |-> None]
    /\ tasks = <<>>
    /\ advertised = [n \in Names |->
                       IF n = "leave" THEN {"get_leave_balance", "lookup"}
                       ELSE IF n = "loan" THEN {"get_loan_details", "lookup"}
                       ELSE {"lookup"}]
    /\ stack = [p \in Procs |-> <<>>]
    /\ ret = [p \in Procs |-> NoValue]
    /\ running = None
    /\ ncalls = 0
    /\ obs = [p \in Procs |-> NoObs]
    /\ bridge = BridgeStart
    /\ chat = NoChat

\* ------------------------------------- _manage_service_connection (task)
\* A new task: created by connect_service, not yet past its first await.
NewTask(name) == [name |-> name, pc |-> "connecting", stop |-> FALSE, ready |-> "pending"]

\* Lines 60-61: publish the service's tools into the router.
PublishTools(map, name) ==
    [x \in Tools |-> IF x \in advertised[name] THEN name ELSE map[x]]

\* Lines 81-82: the finally block removes whatever session is registered
\* under the task's name.
TaskFinally(sess, name) == [sess EXCEPT ![name] = NoTask]

\* Lines 52-59 succeed (transport open, handshake done, tool list received):
\* lines 60-72.  The tools are published, the session is registered,
\* readiness is signalled; stop_event.wait() returns at once when the event
\* is already set, and then lines 73 and 81-82 run in the same step.
TaskReady(t) ==
    /\ running = None
    /\ tasks[t].pc = "connecting"
    /\ tool_map' = PublishTools(tool_map, tasks[t].name)
    /\ IF tasks[t].stop
         THEN /\ sessions' = TaskFinally([sessions EXCEPT ![tasks[t].name] = t], tasks[t].name)
              /\ tasks' = [tasks EXCEPT ![t].pc = "closing", ![t].ready = "ok"]
         ELSE /\ sessions' = [sessions EXCEPT ![tasks[t].name] = t]
              /\ tasks' = [tasks EXCEPT ![t].pc = "ready", ![t].ready = "ok"]
    /\ UNCHANGED <<chat, bridge, MCP_SERVICES, service_tasks, service_stop_events, advertised, stack, ret,
                   running, ncalls, obs>>

\* Lines 52-59 raise: lines 75-82.  Readiness resolves to the error and the
\* finally block runs.  A failure before the transport is open (line 52)
\* leaves nothing on the exit stack, so the task ends in the same step; a
\* later failure leaves the transport to close.
TaskFail(t) ==
    /\ running = None
    /\ tasks[t].pc = "connecting"
    /\ sessions' = TaskFinally(sessions, tasks[t].name)
    /\ \E next \in {"closing", "done"} :
         tasks' = [tasks EXCEPT ![t].pc = next, ![t].ready = "err"]
    /\ UNCHANGED <<chat, bridge, MCP_SERVICES, service_tasks, service_stop_events, tool_map, advertised,
                   stack, ret, running, ncalls, obs>>

\* Line 72 returns after the stop event was set: lines 73 and 81-82.
TaskStop(t) ==
    /\ running = None
    /\ tasks[t].pc = "ready"
    /\ tasks[t].stop
    /\ sessions' = TaskFinally(sessions, tasks[t].name)
    /\ tasks' = [tasks EXCEPT ![t].pc = "closing"]
    /\ UNCHANGED <<chat, bridge, MCP_SERVICES, service_tasks, service_stop_events, tool_map, advertised,
                   stack, ret, running, ncalls, obs>>

\* The AsyncExitStack has closed the session and the transport (line 45).
TaskExit(t) ==
    /\ running = None
    /\ tasks[t].pc = "closing"
    /\ tasks' = [tasks EXCEPT ![t].pc = "done"]
    /\ UNCHANGED <<chat, bridge, MCP_SERVICES, service_tasks, service_stop_events, sessions, tool_map,
                   advertised, stack, ret, running, ncalls, obs>>

\* --------------------------------------------------- disconnect_service
\* disconnect_service without lines 106-107: the stop event is never set.
DisconnectStartNoSignal(p) ==
    /\ At(p, "d_start")
    /\ LET n == Top(p).name
           t == service_tasks[n]
       IN /\ IF t # NoTask
               THEN /\ service_tasks' = [service_tasks EXCEPT ![n] = NoTask]
                    /\ service_stop_events' = [service_stop_events EXCEPT ![n] = NoTask]
                    /\ IF tasks[t].pc = "done"
                         THEN /\ stack' = SetTop(p, [Top(p) EXCEPT !.pc = "d_del"])
                              /\ running' = p
                         ELSE /\ stack' = SetTop(p, [Top(p) EXCEPT !.pc = "d_await", !.t = t])
                              /\ running' = None
               ELSE /\ stack' = SetTop(p, [Top(p) EXCEPT !.pc = "d_del"])
                    /\ UNCHANGED <<service_tasks, service_stop_events, running>>
    /\ UNCHANGED <<chat, bridge, MCP_SERVICES, sessions, tool_map, tasks, advertised, ret, ncalls, obs>>

\* Lines 106-111 without the await of line 113.
DisconnectStartNoAwait(p) ==
    /\ At(p, "d_start")
    /\ LET n == Top(p).name
           ev == service_stop_events[n]
       IN /\ tasks' = IF ev # NoTask THEN [tasks EXCEPT ![ev].stop = TRUE] ELSE tasks
          /\ service_tasks' = [service_tasks EXCEPT ![n] = NoTask]
          /\ service_stop_events' = [service_stop_events EXCEPT ![n] = NoTask]
          /\ stack' = SetTop(p, [Top(p) EXCEPT !.pc = "d_del"])
    /\ UNCHANGED <<chat, bridge, MCP_SERVICES, sessions, tool_map, advertised, ret, running, ncalls, obs>>

\* Lines 106-113: set the stop event, take the task out of the registry and
\* await it.  Awaiting a task that is already done does not suspend.
DisconnectStart(p) ==
    /\ At(p, "d_start")
    /\ LET n == Top(p).name
           ev == service_stop_events[n]
           t == service_tasks[n]
           signalled == IF ev # NoTask THEN [tasks EXCEPT ![ev].stop = TRUE] ELSE tasks
       IN /\ tasks' = signalled
          /\ IF t # NoTask
               THEN /\ service_tasks' = [service_tasks EXCEPT ![n] = NoTask]
                    /\ service_stop_events' = [service_stop_events EXCEPT ![n] = NoTask]
                    /\ IF tasks[t].pc = "done"
                         THEN /\ stack' = SetTop(p, [Top(p) EXCEPT !.pc = "d_del"])
                              /\ running' = p
                         ELSE /\ stack' = SetTop(p, [Top(p) EXCEPT !.pc = "d_await", !.t = t])
                              /\ running' = None
               ELSE /\ stack' = SetTop(p, [Top(p) EXCEPT !.pc = "d_del"])
                    /\ UNCHANGED <<service_tasks, service_stop_events, running>>
    /\ UNCHANGED <<chat, bridge, MCP_SERVICES, sessions, tool_map, advertised, ret, ncalls, obs>>

\* Line 113 resumes: the awaited task is done.
DisconnectResume(p) ==
    /\ Suspended(p, "d_await")
    /\ tasks[Top(p).t].pc = "done"
    /\ stack' = SetTop(p, [Top(p) EXCEPT !.pc = "d_del"])
    /\ running' = p
    /\ UNCHANGED <<chat, bridge, MCP_SERVICES, service_tasks, service_stop_events, sessions, tool_map,
                   tasks, advertised, ret, ncalls, obs>>

\* Lines 119-120, then the call returns.
DisconnectFinish(p) ==
    /\ At(p, "d_del")
    /\ sessions' = [sessions EXCEPT ![Top(p).name] = NoTask]
    /\ Return(p, NoValue)
    /\ UNCHANGED <<chat, bridge, MCP_SERVICES, service_tasks, service_stop_events, tool_map, tasks,
                   advertised, ncalls, obs>>

\* A disconnect_service(name) frame; i notes how many tasks existed when the
\* call was made.
DisconnectFrame(name) == Frame("d_start", name, None, NoTask, Len(tasks))

\* ------------------------------------------------------ connect_service
\* Line 86.
ConnectStart(p) ==
    /\ At(p, "c_start")
    /\ stack' = CallFrom(p, [Top(p) EXCEPT !.pc = "c_create"], DisconnectFrame(Top(p).name))
    /\ UNCHANGED <<chat, bridge, MCP_SERVICES, service_tasks, service_stop_events, sessions, tool_map,
                   tasks, advertised, ret, running, ncalls, obs>>

\* Lines 88-97: create the stop event, the readiness future and the task,
\* register task and event, and await readiness.
ConnectCreate(p) ==
    /\ At(p, "c_create")
    /\ LET n == Top(p).name
           t == Len(tasks) + 1
       IN /\ tasks' = Append(tasks, NewTask(n))
          /\ service_tasks' = [service_tasks EXCEPT ![n] = t]
          /\ service_stop_events' = [service_stop_events EXCEPT ![n] = t]
          /\ stack' = SetTop(p, [Top(p) EXCEPT !.pc = "c_await", !.t = t])
    /\ running' = None
    /\ UNCHANGED <<chat, bridge, MCP_SERVICES, sessions, tool_map, advertised, ret, ncalls, obs>>

\* Line 97 resumes with the result: line 98 returns self.sessions.get(name).
ConnectReady(p) ==
    /\ Suspended(p, "c_await")
    /\ tasks[Top(p).t].ready = "ok"
    /\ Return(p, SessionValue(sessions[Top(p).name]))
    /\ UNCHANGED <<chat, bridge, MCP_SERVICES, service_tasks, service_stop_events, sessions, tool_map,
                   tasks, advertised, ncalls, obs>>

\* Line 97 resumes with the exception and nothing catches it.
ConnectFailedRaises(p) ==
    /\ Suspended(p, "c_await")
    /\ tasks[Top(p).t].ready = "err"
    /\ Return(p, RaiseValue("handshake failed"))
    /\ UNCHANGED <<chat, bridge, MCP_SERVICES, service_tasks, service_stop_events, sessions, tool_map,
                   tasks, advertised, ncalls, obs>>

\* Line 97 resumes with the exception: lines 99-102.
ConnectFailed(p) ==
    /\ Suspended(p, "c_await")
    /\ tasks[Top(p).t].ready = "err"
    /\ stack' = CallFrom(p, [Top(p) EXCEPT !.pc = "c_none"], DisconnectFrame(Top(p).name))
    /\ running' = p
    /\ UNCHANGED <<chat, bridge, MCP_SERVICES, service_tasks, service_stop_events, sessions, tool_map,
                   tasks, advertised, ret, ncalls, obs>>

\* Line 103.
ConnectNone(p) ==
    /\ At(p, "c_none")
    /\ Return(p, NoValue)
    /\ UNCHANGED <<chat, bridge, MCP_SERVICES, service_tasks, service_stop_events, sessions, tool_map,
                   tasks, advertised, ncalls, obs>>

ConnectFrame(name) == Frame("c_start", name, None, NoTask, 0)

\* ---------------------------------------------------------- get_session
\* Lines 127-130 alone: the registered session is not looked at.
GetStartAlwaysConnect(p) ==
    /\ At(p, "g_start")
    /\ IF Top(p).name \in Configured
         THEN /\ stack' = CallFrom(p, [Top(p) EXCEPT !.pc = "g_ret"], ConnectFrame(Top(p).name))
              /\ obs' = [obs EXCEPT ![p].reconnects = IF obs[p].lost THEN @ + 1 ELSE @]
              /\ UNCHANGED <<ret, running>>
         ELSE /\ Return(p, NoValue)
              /\ UNCHANGED obs
    /\ UNCHANGED <<chat, bridge, MCP_SERVICES, service_tasks, service_stop_events, sessions, tool_map,
                   tasks, advertised, ncalls>>

\* Lines 124-130.  Every name of MCP_SERVICES has a url; a name that is not
\* a key of MCP_SERVICES has none.
GetStart(p) ==
    /\ At(p, "g_start")
    /\ IF sessions[Top(p).name] # NoTask
         THEN /\ Return(p, SessionValue(sessions[Top(p).name]))
              /\ UNCHANGED obs
         ELSE IF Top(p).name \in Configured
         THEN /\ stack' = CallFrom(p, [Top(p) EXCEPT !.pc = "g_ret"], ConnectFrame(Top(p).name))
              /\ obs' = [obs EXCEPT ![p].reconnects = IF obs[p].lost THEN @ + 1 ELSE @]
              /\ UNCHANGED <<ret, running>>
         ELSE /\ Return(p, NoValue)
              /\ UNCHANGED obs
    /\ UNCHANGED <<chat, bridge, MCP_SERVICES, service_tasks, service_stop_events, sessions, tool_map,
                   tasks, advertised, ncalls>>

\* Line 129: hand back what connect_service returned.
GetReturn(p) ==
    /\ At(p, "g_ret")
    /\ Return(p, ret[p])
    /\ UNCHANGED <<chat, bridge, MCP_SERVICES, service_tasks, service_stop_events, sessions, tool_map,
                   tasks, advertised, ncalls, obs>>

GetFrame(name) == Frame("g_start", name, None, NoTask, 0)

\* ------------------------------------------------------------ list_tools
\* session.list_tools() / session.call_tool() can answer only while the
\* session's context is open, that is while its task waits at line 72.
SessionOpen(t) == t # NoTask /\ tasks[t].pc = "ready"

\* Lines 158-159: next configured service, or line 177 when all are done.
ListLoop(p) ==
    /\ At(p, "l_loop")
    /\ IF Top(p).i > Len(MCP_SERVICES)
         THEN Return(p, NoValue)
         ELSE /\ stack' = CallFrom(p, [Top(p) EXCEPT !.pc = "l_got", !.name = MCP_SERVICES[Top(p).i]],
                                   GetFrame(MCP_SERVICES[Top(p).i]))
              /\ UNCHANGED <<ret, running>>
    /\ UNCHANGED <<chat, bridge, MCP_SERVICES, service_tasks, service_stop_events, sessions, tool_map,
                   tasks, advertised, ncalls, obs>>

\* Lines 160-164: skip a service without a session, else await its tool list.
ListGot(p) ==
    /\ At(p, "l_got")
    /\ IF ret[p].kind # "session"
         THEN /\ stack' = SetTop(p, [Top(p) EXCEPT !.pc = "l_loop", !.i = @ + 1])
              /\ UNCHANGED running
         ELSE /\ stack' = SetTop(p, [Top(p) EXCEPT !.pc = "l_await", !.t = ret[p].sid])
              /\ running' = None
    /\ UNCHANGED <<chat, bridge, MCP_SERVICES, service_tasks, service_stop_events, sessions, tool_map,
                   tasks, advertised, ret, ncalls, obs>>

\* Lines 165-172: the tool list arrived; every tool is mapped to this service.
RefreshTools(map, name) ==
    [x \in Tools |-> IF x \in advertised[name] THEN name ELSE map[x]]

ListListed(p) ==
    /\ Suspended(p, "l_await")
    /\ SessionOpen(Top(p).t)
    /\ tool_map' = RefreshTools(tool_map, Top(p).name)
    /\ stack' = SetTop(p, [Top(p) EXCEPT !.pc = "l_loop", !.i = @ + 1])
    /\ running' = p
    /\ UNCHANGED <<chat, bridge, MCP_SERVICES, service_tasks, service_stop_events, sessions, tasks,
                   advertised, ret, ncalls, obs>>

\* Lines 173-175: listing raised; the service is disconnected.
ListError(p) ==
    /\ Suspended(p, "l_await")
    /\ stack' = CallFrom(p, [Top(p) EXCEPT !.pc = "l_next"], DisconnectFrame(Top(p).name))
    /\ running' = p
    /\ UNCHANGED <<chat, bridge, MCP_SERVICES, service_tasks, service_stop_events, sessions, tool_map,
                   tasks, advertised, ret, ncalls, obs>>

\* Back in the loop of line 158 after the disconnect of line 175.
ListNext(p) ==
    /\ At(p, "l_next")
    /\ stack' = SetTop(p, [Top(p) EXCEPT !.pc = "l_loop", !.i = @ + 1])
    /\ UNCHANGED <<chat, bridge, MCP_SERVICES, service_tasks, service_stop_events, sessions, tool_map,
                   tasks, advertised, ret, running, ncalls, obs>>

ListFrame == Frame("l_loop", None, None, NoTask, 1)

\* ------------------------------------------------- call_tool: the text
\* Line 255.
MaxChars == 4000
\* Line 257.
Marker == "\n...[Output truncated for speed]..."
\* Line 249.
NoTextPlaceholder == "[Process finished, but no readable text content was returned by the tool.]"
\* Line 272.
TimeoutText == "Error: The service took too long to retrieve the documents. Please try a more specific query."
\* Line 283, for an error whose text names the connection and for any other.
ConnectionErrorText == "System Error: connection closed"
OtherErrorText == "System Error: bad request"

\* Content items as the provider returns them: a typed text object, a
\* mapping with a text key, or an object without text.
TextItem(s) == [shape |-> "TextContent", text |-> s]
DictItem(s) == [shape |-> "dict", text |-> s]
ImageItem == [shape |-> "ImageContent", text |-> ""]

\* Lines 219-232: cases A, B and C.
ItemText(c) ==
    IF c.shape = "TextContent" THEN c.text
    ELSE IF c.shape = "dict" THEN c.text
    ELSE ""

\* Lines 236-241: carriage returns are removed, character by character (the
\* text is split in halves down to single characters).  The typographic
\* quotes and dashes that the same lines replace one for one do not occur in
\* the texts of this model.
RECURSIVE Sanitize(_)
Sanitize(s) ==
    IF Len(s) <= 1
      THEN (IF s = "\r" THEN "" ELSE s)
      ELSE LET h == Len(s) \div 2
           IN Sanitize(SubSeq(s, 1, h)) \o Sanitize(SubSeq(s, h + 1, Len(s)))

\* Line 243: str.strip() leaves something.
RECURSIVE HasVisible(_)
HasVisible(s) ==
    IF Len(s) <= 1
      THEN s \notin {"", " ", "\n", "\t"}
      ELSE LET h == Len(s) \div 2
           IN HasVisible(SubSeq(s, 1, h)) \/ HasVisible(SubSeq(s, h + 1, Len(s)))

\* Lines 215-244: the texts kept, in order.
RECURSIVE ExtractTexts(_)
ExtractTexts(content) ==
    IF content = <<>> THEN <<>>
    ELSE LET clean == Sanitize(ItemText(Head(content)))
         IN (IF HasVisible(clean) THEN <<clean>> ELSE <<>>) \o ExtractTexts(Tail(content))

\* Line 252: "\n\n".join(texts).
RECURSIVE JoinTexts(_)
JoinTexts(texts) ==
    IF texts = <<>> THEN ""
    ELSE IF Len(texts) = 1 THEN texts[1]
    ELSE texts[1] \o "\n\n" \o JoinTexts(Tail(texts))

\* Lines 255-257 cutting already at the limit.
TruncateAtLimit(s) ==
    IF Len(s) >= MaxChars THEN SubSeq(s, 1, MaxChars) \o Marker ELSE s

\* Lines 255-257.
Truncate(s) ==
    IF Len(s) > MaxChars THEN SubSeq(s, 1, MaxChars) \o Marker ELSE s

\* Lines 247-264: the text handed back for the extracted texts.
FinalText(texts) ==
    IF texts = <<>> THEN NoTextPlaceholder ELSE Truncate(JoinTexts(texts))

\* What a downstream tool may answer in the concurrent model.
ToolContents == { <<>>, <<TextItem("ok\r"), ImageItem, DictItem("more")>> }

\* ------------------------------------------------------------ call_tool
\* Lines 181-186 with list_tools() called whatever the lookup gives.
InvokeStartAlwaysRefresh(p) ==
    /\ At(p, "i_start")
    /\ stack' = CallFrom(p, [Top(p) EXCEPT !.pc = "i_resolve"], ListFrame)
    /\ UNCHANGED <<chat, bridge, MCP_SERVICES, service_tasks, service_stop_events, sessions, tool_map,
                   tasks, advertised, ret, running, ncalls, obs>>

\* Lines 181-186: look the tool up; on a miss refresh by list_tools().
InvokeStart(p) ==
    /\ At(p, "i_start")
    /\ IF tool_map[Top(p).tool] = None
         THEN stack' = CallFrom(p, [Top(p) EXCEPT !.pc = "i_resolve"], ListFrame)
         ELSE stack' = SetTop(p, [Top(p) EXCEPT !.pc = "i_loop", !.name = tool_map[Top(p).tool]])
    /\ UNCHANGED <<chat, bridge, MCP_SERVICES, service_tasks, service_stop_events, sessions, tool_map,
                   tasks, advertised, ret, running, ncalls, obs>>

\* Lines 186-189: look up again; still unknown raises ValueError.
InvokeResolve(p) ==
    /\ At(p, "i_resolve")
    /\ IF tool_map[Top(p).tool] = None
         THEN Return(p, RaiseValue("ValueError: Tool not found."))
         ELSE /\ stack' = SetTop(p, [Top(p) EXCEPT !.pc = "i_loop", !.name = tool_map[Top(p).tool]])
              /\ UNCHANGED <<ret, running>>
    /\ UNCHANGED <<chat, bridge, MCP_SERVICES, service_tasks, service_stop_events, sessions, tool_map,
                   tasks, advertised, ncalls, obs>>

\* Lines 195-196 and 285: the next of the two attempts, or RuntimeError.
InvokeLoop(p) ==
    /\ At(p, "i_loop")
    /\ IF Top(p).i >= 2
         THEN Return(p, RaiseValue("RuntimeError: Failed to execute tool after retries."))
         ELSE /\ stack' = CallFrom(p, [Top(p) EXCEPT !.pc = "i_got"], GetFrame(Top(p).name))
              /\ UNCHANGED <<ret, running>>
    /\ UNCHANGED <<chat, bridge, MCP_SERVICES, service_tasks, service_stop_events, sessions, tool_map,
                   tasks, advertised, ncalls, obs>>

\* Lines 199-208: no session: disconnect and go on; else issue the call and
\* await it under the 25 s limit.
InvokeGot(p) ==
    /\ At(p, "i_got")
    /\ IF ret[p].kind # "session"
         THEN /\ stack' = CallFrom(p, [Top(p) EXCEPT !.pc = "i_cont"], DisconnectFrame(Top(p).name))
              /\ UNCHANGED <<running, obs>>
         ELSE /\ stack' = SetTop(p, [Top(p) EXCEPT !.pc = "i_await", !.t = ret[p].sid])
              /\ obs' = [obs EXCEPT ![p].calls = @ + 1]
              /\ running' = None
    /\ UNCHANGED <<chat, bridge, MCP_SERVICES, service_tasks, service_stop_events, sessions, tool_map,
                   tasks, advertised, ret, ncalls>>

\* The continue of lines 201 and 281.
InvokeCont(p) ==
    /\ At(p, "i_cont")
    /\ stack' = SetTop(p, [Top(p) EXCEPT !.pc = "i_loop", !.i = @ + 1])
    /\ UNCHANGED <<chat, bridge, MCP_SERVICES, service_tasks, service_stop_events, sessions, tool_map,
                   tasks, advertised, ret, running, ncalls, obs>>

\* Lines 205-267: the call answered in time with one of the given contents.
InvokeResultFrom(p, contents) ==
    /\ Suspended(p, "i_await")
    /\ SessionOpen(Top(p).t)
    /\ \E content \in contents :
         /\ Return(p, TextValue(FinalText(ExtractTexts(content))))
         /\ obs' = [obs EXCEPT ![p].answered = TRUE, ![p].answer = content]
    /\ UNCHANGED <<chat, bridge, MCP_SERVICES, service_tasks, service_stop_events, sessions, tool_map,
                   tasks, advertised, ncalls>>

InvokeResult(p) == InvokeResultFrom(p, ToolContents)

\* Lines 270-272 with the service dropped on a timeout.
InvokeTimeoutDropSession(p) ==
    /\ Suspended(p, "i_await")
    /\ Return(p, TextValue(TimeoutText))
    /\ sessions' = [sessions EXCEPT ![Top(p).name] = NoTask]
    /\ UNCHANGED <<chat, bridge, MCP_SERVICES, service_tasks, service_stop_events, tool_map,
                   tasks, advertised, ncalls, obs>>

\* Lines 270-272: the 25 s limit passed.
InvokeTimeout(p) ==
    /\ Suspended(p, "i_await")
    /\ Return(p, TextValue(TimeoutText))
    /\ UNCHANGED <<chat, bridge, MCP_SERVICES, service_tasks, service_stop_events, sessions, tool_map,
                   tasks, advertised, ncalls, obs>>

\* Lines 274-283 without the test of the attempt at line 279.
InvokeErrorAlwaysRetry(p) ==
    /\ Suspended(p, "i_await")
    /\ \E connection \in BOOLEAN :
         IF connection
           THEN /\ stack' = CallFrom(p, [Top(p) EXCEPT !.pc = "i_cont"], DisconnectFrame(Top(p).name))
                /\ running' = p
                /\ obs' = [obs EXCEPT ![p].lost = TRUE]
                /\ UNCHANGED ret
           ELSE /\ Return(p, TextValue(OtherErrorText))
                /\ UNCHANGED obs
    /\ UNCHANGED <<chat, bridge, MCP_SERVICES, service_tasks, service_stop_events, sessions, tool_map,
                   tasks, advertised, ncalls>>

\* Lines 274-283: the call raised.  An error naming the connection on the
\* first attempt disconnects and retries; anything else is returned as text.
InvokeError(p) ==
    /\ Suspended(p, "i_await")
    /\ \E connection \in BOOLEAN :
         IF connection /\ Top(p).i = 0
           THEN /\ stack' = CallFrom(p, [Top(p) EXCEPT !.pc = "i_cont"], DisconnectFrame(Top(p).name))
                /\ running' = p
                /\ obs' = [obs EXCEPT ![p].lost = TRUE]
                /\ UNCHANGED ret
           ELSE /\ Return(p, TextValue(IF connection THEN ConnectionErrorText ELSE OtherErrorText))
                /\ UNCHANGED obs
    /\ UNCHANGED <<chat, bridge, MCP_SERVICES, service_tasks, service_stop_events, sessions, tool_map,
                   tasks, advertised, ncalls>>

InvokeFrame(tool) == Frame("i_start", None, tool, NoTask, 0)

\* ------------------------------------------------------ request handlers
ProcOrder == <<"r1", "r2", "r3">>

Idle(p) == stack[p] = <<>> /\ running # p

\* Requests are anonymous: a new one takes the first free coroutine slot.
FirstIdle(p) ==
    /\ Idle(p)
    /\ \A k \in 1..Len(ProcOrder) :
         (\E j \in 1..Len(ProcOrder) : j > k /\ ProcOrder[j] = p) => ~Idle(ProcOrder[k])

\* A request handler starts running frame fr as operation op.
Begin(p, op, fr, max) ==
    /\ running = None
    /\ FirstIdle(p)
    /\ ncalls < max
    /\ ncalls' = ncalls + 1
    /\ stack' = [stack EXCEPT ![p] = <<fr>>]
    /\ ret' = [ret EXCEPT ![p] = NoValue]
    /\ obs' = [obs EXCEPT ![p] = [NoObs EXCEPT !.op = op]]
    /\ running' = p
    /\ UNCHANGED <<chat, bridge, MCP_SERVICES, service_tasks, service_stop_events, sessions, tool_map,
                   tasks, advertised>>

\* The outcome of a finished handler goes to its caller and the request
\* coroutine ends.
Finish(p) ==
    /\ Done(p)
    /\ obs[p].op # "idle"
    /\ ret' = [ret EXCEPT ![p] = NoValue]
    /\ obs' = [obs EXCEPT ![p] = NoObs]
    /\ running' = None
    /\ UNCHANGED <<chat, bridge, MCP_SERVICES, service_tasks, service_stop_events, sessions, tool_map,
                   tasks, advertised, stack, ncalls>>

CallDisconnect(p) == \E n \in Configured : Begin(p, "disconnect", DisconnectFrame(n), MaxCalls)
CallGet(p) == \E n \in Configured : Begin(p, "get", GetFrame(n), MaxCalls)
CallListTools(p) == Begin(p, "list_tools", ListFrame, MaxCalls)

\* A tool call for a tool the first service advertises or for one that no
\* configured service may advertise, and a disconnect arriving from elsewhere
\* while tool calls run.
Requested == {"get_leave_balance", "get_loan_details"}

CallTool(p) == \E x \in Requested : Begin(p, "call_tool", InvokeFrame(x), MaxInvokeCalls)
DropService(p) == \E n \in Configured : Begin(p, "disconnect", DisconnectFrame(n), MaxInvokeCalls)

\* ------------------------------------------------------------------ Spec
TaskStep ==
    \E t \in TaskIds :
        \/ TaskReady(t)
        \/ TaskFail(t)
        \/ TaskStop(t)
        \/ TaskExit(t)

ManagerStep(p) ==
    \/ DisconnectStart(p)
    \/ DisconnectResume(p)
    \/ DisconnectFinish(p)
    \/ ConnectStart(p)
    \/ ConnectCreate(p)
    \/ ConnectReady(p)
    \/ ConnectFailed(p)
    \/ ConnectNone(p)
    \/ GetStart(p)
    \/ GetReturn(p)

ListStep(p) ==
    \/ ListLoop(p)
    \/ ListGot(p)
    \/ ListListed(p)
    \/ ListError(p)
    \/ ListNext(p)

InvokeStep(p) ==
    \/ InvokeStart(p)
    \/ InvokeResolve(p)
    \/ InvokeLoop(p)
    \/ InvokeGot(p)
    \/ InvokeCont(p)
    \/ InvokeResult(p)
    \/ InvokeTimeout(p)
    \/ InvokeError(p)

\* connect_service is entered only through get_session (line 129) and
\* connect_downstream (line 138); requests reach the manager through
\* get_session, disconnect_service and list_tools.
Next ==
    \/ TaskStep
    \/ \E p \in Procs :
         \/ CallDisconnect(p)
         \/ CallGet(p)
         \/ CallListTools(p)
         \/ Finish(p)
         \/ ManagerStep(p)
         \/ ListStep(p)

Spec == Init /\ [][Next]_vars

\* Tool calls, with disconnects of the service arriving from other requests.
NextInvoke ==
    \/ TaskStep
    \/ \E p \in Procs :
         \/ CallTool(p)
         \/ DropService(p)
         \/ Finish(p)
         \/ ManagerStep(p)
         \/ ListStep(p)
         \/ InvokeStep(p)

SpecInvoke == Init /\ [][NextInvoke]_vars

\* ------------------------------- calls made one after the other
\* No request is running.
Quiet == \A q \in Procs : Idle(q)

\* disconnect_service(name) followed immediately by get_session(name) in one
\* caller; i notes how many tasks existed when the caller started.
RoundFrame(name) == Frame("rt_start", name, None, NoTask, Len(tasks))

RoundStart(p) ==
    /\ At(p, "rt_start")
    /\ stack' = CallFrom(p, [Top(p) EXCEPT !.pc = "rt_get"], DisconnectFrame(Top(p).name))
    /\ UNCHANGED <<chat, bridge, MCP_SERVICES, service_tasks, service_stop_events, sessions, tool_map,
                   tasks, advertised, ret, running, ncalls, obs>>

RoundGet(p) ==
    /\ At(p, "rt_get")
    /\ stack' = CallFrom(p, [Top(p) EXCEPT !.pc = "rt_ret"], GetFrame(Top(p).name))
    /\ UNCHANGED <<chat, bridge, MCP_SERVICES, service_tasks, service_stop_events, sessions, tool_map,
                   tasks, advertised, ret, running, ncalls, obs>>

RoundReturn(p) ==
    /\ At(p, "rt_ret")
    /\ Return(p, ret[p])
    /\ UNCHANGED <<chat, bridge, MCP_SERVICES, service_tasks, service_stop_events, sessions, tool_map,
                   tasks, advertised, ncalls, obs>>

RoundStep(p) ==
    \/ RoundStart(p)
    \/ RoundGet(p)
    \/ RoundReturn(p)

SeqGet(p) == Quiet /\ CallGet(p)
SeqDisconnect(p) == Quiet /\ CallDisconnect(p)
CallRoundTrip(p) ==
    /\ Quiet
    /\ \E n \in Configured : Begin(p, "roundtrip", RoundFrame(n), MaxCalls)

NextRound ==
    \/ TaskStep
    \/ \E p \in Procs :
         \/ SeqGet(p)
         \/ SeqDisconnect(p)
         \/ CallRoundTrip(p)
         \/ RoundStep(p)
         \/ Finish(p)
         \/ ManagerStep(p)

SpecRound == Init /\ [][NextRound]_vars

\* A caller of get_session(name), for any name; t notes the session that was
\* registered for name when the call was made, i how many tasks existed.
ProbeFrame(name) == Frame("pg_start", name, None, sessions[name], Len(tasks))

ProbeStart(p) ==
    /\ At(p, "pg_start")
    /\ stack' = CallFrom(p, [Top(p) EXCEPT !.pc = "pg_ret"], GetFrame(Top(p).name))
    /\ UNCHANGED <<chat, bridge, MCP_SERVICES, service_tasks, service_stop_events, sessions, tool_map,
                   tasks, advertised, ret, running, ncalls, obs>>

ProbeReturn(p) ==
    /\ At(p, "pg_ret")
    /\ Return(p, ret[p])
    /\ UNCHANGED <<chat, bridge, MCP_SERVICES, service_tasks, service_stop_events, sessions, tool_map,
                   tasks, advertised, ncalls, obs>>

CallProbe(p) ==
    /\ Quiet
    /\ \E n \in Names : Begin(p, "probe", ProbeFrame(n), MaxCalls)

NextGet ==
    \/ TaskStep
    \/ \E p \in Procs :
         \/ SeqDisconnect(p)
         \/ CallProbe(p)
         \/ ProbeStart(p)
         \/ ProbeReturn(p)
         \/ Finish(p)
         \/ ManagerStep(p)

SpecGet == Init /\ [][NextGet]_vars

\* ------------------------------------------- start-up, then discovery
\* lifespan (line 299) runs connect_downstream before any request is served.
InitBoot ==
    /\ MCP_SERVICES = FirstServices(NumBootServices)
    /\ service_tasks = [n \in Names |-> NoTask]
    /\ service_stop_events = [n \in Names |-> NoTask]
    /\ sessions = [n \in Names |-> NoTask]
    /\ tool_map = [x \in Tools |-> None]
    /\ tasks = <<>>
    /\ advertised = [n \in Names |->
                       IF n = "leave" THEN {"get_leave_balance", "lookup"}
                       ELSE IF n = "loan" THEN {"get_loan_details", "lookup"}
                       ELSE {"lookup"}]
    /\ stack = [p \in Procs |-> <<>>]
    /\ ret = [p \in Procs |-> NoValue]
    /\ running = None
    /\ ncalls = 0
    /\ obs = [p \in Procs |-> NoObs]
    /\ bridge = BridgeStart
    /\ chat = NoChat

BootFrame == Frame("b_start", None, None, NoTask, 0)

\* The coroutine that gather runs for the k-th service: the k-th one after
\* the coroutine of connect_downstream itself.
Child(k) == ProcOrder[k + 1]

\* Lines 135-139: one connect_service coroutine per configured service, in
\* order, handed to asyncio.gather, which is awaited.
BootSpawn(p) ==
    /\ At(p, "b_start")
    /\ p = ProcOrder[1]
    /\ stack' = [q \in Procs |->
                   IF q = p THEN <<[Top(p) EXCEPT !.pc = "b_gather"]>>
                   ELSE IF \E k \in 1..Len(MCP_SERVICES) : q = Child(k)
                     THEN <<ConnectFrame(MCP_SERVICES[CHOOSE k \in 1..Len(MCP_SERVICES) : q = Child(k)])>>
                     ELSE stack[q]]
    /\ running' = None
    /\ UNCHANGED <<chat, bridge, MCP_SERVICES, service_tasks, service_stop_events, sessions, tool_map,
                   tasks, advertised, ret, ncalls, obs>>

\* The event loop starts the coroutines of gather in the order given.
GatherRun(q) ==
    /\ running = None
    /\ \E k \in 1..Len(MCP_SERVICES) :
         /\ q = Child(k)
         /\ stack[q] = <<ConnectFrame(MCP_SERVICES[k])>>
         /\ \A j \in 1..(k - 1) : stack[Child(j)] # <<ConnectFrame(MCP_SERVICES[j])>>
    /\ running' = q
    /\ UNCHANGED <<chat, bridge, MCP_SERVICES, service_tasks, service_stop_events, sessions, tool_map,
                   tasks, advertised, stack, ret, ncalls, obs>>

\* A coroutine of gather has returned or raised: its outcome stays with
\* gather and the event loop is free again.
ChildEnd(q) ==
    /\ Done(q)
    /\ obs[q].op = "idle"
    /\ running' = None
    /\ UNCHANGED <<chat, bridge, MCP_SERVICES, service_tasks, service_stop_events, sessions, tool_map,
                   tasks, advertised, stack, ret, ncalls, obs>>

\* A coroutine of gather that has ended by raising.
Raised(q) == Idle(q) /\ ret[q].kind = "raise"

\* Line 139 resumes: every connect_service coroutine has returned, or one
\* of them has raised (gather then raises at once, the others run on).
\* connect_downstream returns nothing, or passes the exception on.
BootJoin(p) ==
    /\ Suspended(p, "b_gather")
    /\ \/ \A q \in Procs \ {p} : Idle(q)
       \/ \E q \in Procs \ {p} : Raised(q)
    /\ stack' = [stack EXCEPT ![p] = Tail(@)]
    /\ ret' = [q \in Procs |->
                 IF q = p
                   THEN (IF \E c \in Procs \ {p} : Raised(c)
                           THEN RaiseValue("connect_downstream failed")
                           ELSE NoValue)
                   ELSE IF Idle(q) THEN NoValue ELSE ret[q]]
    /\ running' = p
    /\ UNCHANGED <<chat, bridge, MCP_SERVICES, service_tasks, service_stop_events, sessions, tool_map,
                   tasks, advertised, ncalls, obs>>

\* The start-up comes first; a discovery refresh is started when nothing
\* else is running.
CallStartup(p) ==
    /\ ncalls = 0
    /\ Begin(p, "connect_downstream", BootFrame, MaxBootCalls)

CallRefresh(p) ==
    /\ ncalls > 0
    /\ \A q \in Procs : Idle(q)
    /\ Begin(p, "list_tools", ListFrame, MaxBootCalls)

NextBoot ==
    \/ TaskStep
    \/ \E p \in Procs :
         \/ CallStartup(p)
         \/ CallRefresh(p)
         \/ BootSpawn(p)
         \/ GatherRun(p)
         \/ ChildEnd(p)
         \/ BootJoin(p)
         \/ Finish(p)
         \/ ManagerStep(p)
         \/ ListStep(p)

SpecBoot == InitBoot /\ [][NextBoot]_vars

\* ------------------------------------------------- the text of an answer
\* A text of n characters.
RECURSIVE Rep(_)
Rep(n) ==
    IF n = 0 THEN ""
    ELSE IF n % 2 = 1 THEN "a" \o Rep(n - 1)
    ELSE LET h == Rep(n \div 2) IN h \o h

\* Texts a tool may answer with: short ones, ones around the limit of line
\* 255, with and without carriage returns, blank ones, and ones that end
\* in the words of line 257.
Lengths == {0, 1, MaxChars - Len(Marker) - 1, MaxChars - Len(Marker), MaxChars - 1,
            MaxChars, MaxChars + 1, MaxChars + 1000}
Tails == {"", "b", Marker}
Fragments == {Rep(n) \o tail : n \in Lengths, tail \in Tails} \cup {"\r", " \n\t", "a\rb"}
Heads == {"h", " ", Rep(MaxChars - 2)}

TextInputs ==
    {<<>>}
    \cup {<<TextItem(f)>> : f \in Fragments}
    \cup {<<DictItem(h), ImageItem, TextItem(f)>> : h \in Heads, f \in Fragments}

\* A tool call of request r1 is awaiting the downstream answer (line 205) on
\* the Ready connection of the first service.
InitText ==
    /\ MCP_SERVICES = FirstServices(NumServices)
    /\ tasks = <<[NewTask("leave") EXCEPT !.pc = "ready", !.ready = "ok"]>>
    /\ service_tasks = [n \in Names |-> IF n = "leave" THEN 1 ELSE NoTask]
    /\ service_stop_events = [n \in Names |-> IF n = "leave" THEN 1 ELSE NoTask]
    /\ sessions = [n \in Names |-> IF n = "leave" THEN 1 ELSE NoTask]
    /\ advertised = [n \in Names |->
                       IF n = "leave" THEN {"get_leave_balance", "lookup"}
                       ELSE IF n = "loan" THEN {"get_loan_details", "lookup"}
                       ELSE {"lookup"}]
    /\ tool_map = [x \in Tools |-> IF x \in advertised["leave"] THEN "leave" ELSE None]
    /\ stack = [p \in Procs |->
                  IF p = "r1" THEN <<Frame("i_await", "leave", "get_leave_balance", 1, 0)>>
                  ELSE <<>>]
    /\ ret = [p \in Procs |-> IF p = "r1" THEN SessionValue(1) ELSE NoValue]
    /\ running = None
    /\ ncalls = 1
    /\ obs = [p \in Procs |->
                IF p = "r1" THEN [NoObs EXCEPT !.op = "call_tool", !.calls = 1] ELSE NoObs]
    /\ bridge = BridgeStart
    /\ chat = NoChat

AnswerText(p) == InvokeResultFrom(p, TextInputs)

NextText ==
    \E p \in Procs :
        \/ AnswerText(p)
        \/ Finish(p)

SpecText == InitText /\ [][NextText]_vars

\* ------------------------------------------------------------- chat run
\* A finalized tool call (lines 426-430): id, function name, arguments text.
ToolCall(id, name, args) == [id |-> id, name |-> name, args |-> args]

\* The id the completion API gives the k-th tool call of round r.
Digits == <<"1", "2", "3", "4", "5", "6", "7", "8", "9">>
CallId(r, k) == "call_" \o Digits[r] \o "_" \o Digits[k]

\* What the model may ask for in one tool call: a tool some service
\* advertises, a tool nobody advertises, and arguments that are not JSON.
Asks ==
    {[name |-> "get_leave_balance", args |-> "{}"],
     [name |-> "get_loan_details", args |-> "{}"],
     [name |-> "get_leave_balance", args |-> "{oops"]}

\* The tool calls one round's stream may accumulate: up to MaxRoundCalls,
\* within what is left of MaxChatCalls.
RoundCalls(r, left) ==
    UNION {{[k \in 1..n |-> ToolCall(CallId(r, k), f[k].name, f[k].args)] : f \in [1..n -> Asks]}
           : n \in 0..(IF left < MaxRoundCalls THEN left ELSE MaxRoundCalls)}

\* Text the model may stream in a round that asks for no tool; a round that
\* asks for tools streams none.
RoundTexts == {"", "You have 12 days."}

\* Line 451: json.loads(func_args) succeeds.
ParsesAsJson(a) == a = "{}"

\* Lines 467-468: the texts of the items of type text, joined by newlines.
RECURSIVE ChatText(_)
ChatText(content) ==
    IF content = <<>> THEN ""
    ELSE LET rest == ChatText(Tail(content))
         IN IF Head(content).shape # "TextContent" THEN rest
            ELSE IF rest = "" /\ \A k \in 2..Len(content) : content[k].shape # "TextContent"
              THEN Head(content).text
            ELSE Head(content).text \o "\n" \o rest

\* What a tool answers in a chat run.
ChatContents == {<<TextItem("12 days"), ImageItem>>}

ChatFrame == Frame("ch_start", None, None, NoTask, 0)

\* Line 368: the tool list is built by list_tools().
ChatStart(p) ==
    /\ At(p, "ch_start")
    /\ stack' = CallFrom(p, [Top(p) EXCEPT !.pc = "ch_init"], ListFrame)
    /\ UNCHANGED <<chat, bridge, MCP_SERVICES, service_tasks, service_stop_events, sessions,
                   tool_map, tasks, advertised, ret, running, ncalls, obs>>

\* Lines 385-403: the conversation starts as the system prompt and the
\* request's messages.
ChatInit(p) ==
    /\ At(p, "ch_init")
    /\ chat' = [NoChat EXCEPT !.conversation = <<SystemMsg, UserMsg>>]
    /\ stack' = SetTop(p, [Top(p) EXCEPT !.pc = "ch_open"])
    /\ UNCHANGED <<bridge, MCP_SERVICES, service_tasks, service_stop_events, sessions,
                   tool_map, tasks, advertised, ret, running, ncalls, obs>>

\* Lines 405-413: the next of the five rounds opens a streamed completion
\* call; after the fifth the generator ends.
ChatOpen(p) ==
    /\ At(p, "ch_open")
    /\ IF chat.round >= MaxRounds
         THEN /\ Return(p, NoValue)
              /\ UNCHANGED chat
         ELSE /\ chat' = [chat EXCEPT !.round = @ + 1, !.tool_calls = <<>>,
                                       !.mark = Len(chat.conversation)]
              /\ stack' = SetTop(p, [Top(p) EXCEPT !.pc = "ch_stream"])
              /\ running' = None
              /\ UNCHANGED ret
    /\ UNCHANGED <<bridge, MCP_SERVICES, service_tasks, service_stop_events, sessions,
                   tool_map, tasks, advertised, ncalls, obs>>

\* Lines 415-439 without the break of lines 438-439.
ChatStreamNoBreak(p) ==
    /\ Suspended(p, "ch_stream")
    /\ \E calls \in RoundCalls(chat.round, MaxChatCalls - Len(chat.executed)) :
       \E text \in (IF calls = <<>> THEN RoundTexts ELSE {""}) :
         /\ chat' = [chat EXCEPT !.tool_calls = calls,
                                  !.conversation = Append(@, AssistantMsg(text, calls))]
         /\ stack' = SetTop(p, [Top(p) EXCEPT !.pc = "ch_next", !.i = 1])
         /\ running' = p
         /\ UNCHANGED ret
    /\ UNCHANGED <<bridge, MCP_SERVICES, service_tasks, service_stop_events, sessions,
                   tool_map, tasks, advertised, ncalls, obs>>

\* Lines 415-439: the stream is exhausted; the assistant message is appended;
\* without tool calls the loop is left, else the tools are executed.
ChatStream(p) ==
    /\ Suspended(p, "ch_stream")
    /\ \E calls \in RoundCalls(chat.round, MaxChatCalls - Len(chat.executed)) :
       \E text \in (IF calls = <<>> THEN RoundTexts ELSE {""}) :
         /\ chat' = [chat EXCEPT !.tool_calls = calls,
                                  !.conversation = Append(@, AssistantMsg(text, calls))]
         /\ IF calls = <<>>
              THEN Return(p, TextValue(text))
              ELSE /\ stack' = SetTop(p, [Top(p) EXCEPT !.pc = "ch_tool", !.i = 1])
                   /\ running' = p
                   /\ UNCHANGED ret
    /\ UNCHANGED <<bridge, MCP_SERVICES, service_tasks, service_stop_events, sessions,
                   tool_map, tasks, advertised, ncalls, obs>>

\* Lines 477-481: the tool message of the call being executed is appended
\* and the loop of line 442 goes on.
ToolDone(p, text) ==
    /\ chat' = [chat EXCEPT
                   !.conversation = Append(@, ToolMsg(chat.tool_calls[Top(p).i].id, text))]
    /\ stack' = SetTop(p, [Top(p) EXCEPT !.pc = "ch_next", !.i = @ + 1])
    /\ running' = p

\* Lines 442-460: the next tool call is taken up: its arguments are parsed
\* and its service resolved; then the session is fetched.
ChatTool(p) ==
    /\ At(p, "ch_next") \/ At(p, "ch_tool")
    /\ Top(p).i <= Len(chat.tool_calls)
    /\ LET tc == chat.tool_calls[Top(p).i]
           noted == [chat EXCEPT !.executed = Append(@, [round |-> chat.round, id |-> tc.id])]
       IN IF ~ParsesAsJson(tc.args)
            THEN /\ chat' = [noted EXCEPT !.conversation =
                                Append(@, ToolMsg(tc.id, "Error executing tool: bad arguments"))]
                 /\ stack' = SetTop(p, [Top(p) EXCEPT !.pc = "ch_next", !.i = @ + 1])
            ELSE IF tool_map[tc.name] = None
            THEN /\ chat' = [noted EXCEPT !.conversation =
                                Append(@, ToolMsg(tc.id, "Error: Tool not found."))]
                 /\ stack' = SetTop(p, [Top(p) EXCEPT !.pc = "ch_next", !.i = @ + 1])
            ELSE /\ chat' = noted
                 /\ stack' = CallFrom(p, [Top(p) EXCEPT !.pc = "ch_got", !.name = tool_map[tc.name],
                                                        !.tool = tc.name],
                                      GetFrame(tool_map[tc.name]))
    /\ UNCHANGED <<bridge, MCP_SERVICES, service_tasks, service_stop_events, sessions,
                   tool_map, tasks, advertised, ret, running, ncalls, obs>>

\* Lines 461-470: with a session the tool is called and awaited; without
\* one the tool message says the service is unavailable.
ChatGot(p) ==
    /\ At(p, "ch_got")
    /\ IF ret[p].kind = "session"
         THEN /\ stack' = SetTop(p, [Top(p) EXCEPT !.pc = "ch_await", !.t = ret[p].sid])
              /\ running' = None
              /\ UNCHANGED chat
         ELSE ToolDone(p, "Error: Service unavailable.")
    /\ UNCHANGED <<bridge, MCP_SERVICES, service_tasks, service_stop_events, sessions,
                   tool_map, tasks, advertised, ret, ncalls, obs>>

\* Lines 463-468: the tool answered.
ChatToolResult(p) ==
    /\ Suspended(p, "ch_await")
    /\ SessionOpen(Top(p).t)
    /\ \E content \in ChatContents : ToolDone(p, ChatText(content))
    /\ UNCHANGED <<bridge, MCP_SERVICES, service_tasks, service_stop_events, sessions,
                   tool_map, tasks, advertised, ret, ncalls, obs>>

\* Lines 474-475 with no tool message for a call that raised.
ChatToolErrorSilent(p) ==
    /\ Suspended(p, "ch_await")
    /\ stack' = SetTop(p, [Top(p) EXCEPT !.pc = "ch_next", !.i = @ + 1])
    /\ running' = p
    /\ UNCHANGED <<chat, bridge, MCP_SERVICES, service_tasks, service_stop_events, sessions,
                   tool_map, tasks, advertised, ret, ncalls, obs>>

\* Lines 474-475: the call raised.
ChatToolError(p) ==
    /\ Suspended(p, "ch_await")
    /\ ToolDone(p, "Error executing tool: call failed")
    /\ UNCHANGED <<bridge, MCP_SERVICES, service_tasks, service_stop_events, sessions,
                   tool_map, tasks, advertised, ret, ncalls, obs>>

\* Line 442 is exhausted: back to line 405.
ChatRoundEnd(p) ==
    /\ At(p, "ch_next")
    /\ Top(p).i > Len(chat.tool_calls)
    /\ stack' = SetTop(p, [Top(p) EXCEPT !.pc = "ch_open"])
    /\ UNCHANGED <<chat, bridge, MCP_SERVICES, service_tasks, service_stop_events, sessions,
                   tool_map, tasks, advertised, ret, running, ncalls, obs>>

ChatStep(p) ==
    \/ ChatStart(p)
    \/ ChatInit(p)
    \/ ChatOpen(p)
    \/ ChatStream(p)
    \/ ChatTool(p)
    \/ ChatGot(p)
    \/ ChatToolResult(p)
    \/ ChatToolError(p)
    \/ ChatRoundEnd(p)

\* A chat request arrives (line 358) when nothing else is running.
CallChat(p) == Quiet /\ Begin(p, "chat", ChatFrame, MaxChats)

NextChat ==
    \/ TaskStep
    \/ \E p \in Procs :
         \/ CallChat(p)
         \/ ChatStep(p)
         \/ Finish(p)
         \/ ManagerStep(p)
         \/ ListStep(p)

SpecChat == Init /\ [][NextChat]_vars

\* ------------------------- chat run: accumulating the streamed tool calls
\* A tool-call fragment of a chunk (lines 424-430): the index it addresses
\* and the parts of id, function name and arguments it carries ("": none).
\* Every fragment here carries an index.
Delta(index, id, name, arguments) ==
    [index |-> index, id |-> id, name |-> name, arguments |-> arguments]

Deltas ==
    {Delta(i, c, f, a) : i \in {0, 1}, c \in {"", "c"}, f \in {"", "f"}, a \in {"", "a", "b"}}

\* The streams of up to MaxFragments fragments.
Streams == UNION {[1..n -> Deltas] : n \in 0..MaxFragments}

\* Lines 415-416 for a round whose stream is s: nothing accumulated yet.
AccumulateStart(s) == [pc |-> "stream", stream |-> s, pos |-> 0, tool_calls |-> <<>>]

\* Lines 426-427: one blank entry is appended when the list is not longer
\* than the index.
Grown(calls, d) ==
    IF Len(calls) <= d.index THEN Append(calls, ToolCall("", "", "")) ELSE calls

\* The round's stream loop (line 418) with the stream still to come.
InitAccumulate ==
    /\ MCP_SERVICES = FirstServices(NumServices)
    /\ service_tasks = [n \in Names |-> NoTask]
    /\ service_stop_events = [n \in Names |-> NoTask]
    /\ sessions = [n \in Names |-> NoTask]
    /\ tool_map = [x \in Tools |-> None]
    /\ tasks = <<>>
    /\ advertised = [n \in Names |->
                       IF n = "leave" THEN {"get_leave_balance", "lookup"}
                       ELSE IF n = "loan" THEN {"get_loan_details", "lookup"}
                       ELSE {"lookup"}]
    /\ stack = [p \in Procs |-> <<>>]
    /\ ret = [p \in Procs |-> NoValue]
    /\ running = None
    /\ ncalls = 0
    /\ obs = [p \in Procs |-> NoObs]
    /\ bridge = BridgeStart
    /\ chat \in {AccumulateStart(s) : s \in Streams}

\* Lines 424-430 for the next fragment: tool_calls[tc.index] is indexed after
\* at most one append, and raises IndexError when the index is still out of
\* range; the exception leaves the generator.
AccumulateDelta ==
    /\ chat.pc = "stream"
    /\ chat.pos < Len(chat.stream)
    /\ LET d == chat.stream[chat.pos + 1]
           grown == Grown(chat.tool_calls, d)
       IN IF d.index >= Len(grown)
            THEN chat' = [chat EXCEPT !.pc = "raised", !.tool_calls = grown]
            ELSE chat' = [chat EXCEPT
                             !.pos = @ + 1,
                             !.tool_calls =
                                 [grown EXCEPT ![d.index + 1] =
                                     ToolCall(@.id \o d.id, @.name \o d.name,
                                              @.args \o d.arguments)]]
    /\ UNCHANGED <<bridge, MCP_SERVICES, service_tasks, service_stop_events, sessions, tool_map,
                   tasks, advertised, stack, ret, running, ncalls, obs>>

\* Line 432: the stream is exhausted and the tool calls are final.
AccumulateEnd ==
    /\ chat.pc = "stream"
    /\ chat.pos = Len(chat.stream)
    /\ chat' = [chat EXCEPT !.pc = "final"]
    /\ UNCHANGED <<bridge, MCP_SERVICES, service_tasks, service_stop_events, sessions, tool_map,
                   tasks, advertised, stack, ret, running, ncalls, obs>>

NextAccumulate ==
    \/ AccumulateDelta
    \/ AccumulateEnd

SpecAccumulate == InitAccumulate /\ [][NextAccumulate]_vars

\* ------------------------------------------------------ Transport Bridge
\* What the client may write to the bridge's input.
Inbound ==
    {EndOfInput, BlankLine, GarbageLine,
     RequestLine("tools/call", 1), RequestLine("tools/list", 2),
     NotificationLine("notifications/initialized")}

\* What upstream may answer: status, body text, and the Mcp-Session-Id header
\* (None: the response has no such header).
Statuses == {200, 202, 500}
JsonBody == "{result}"
EventStreamBody == "event: message\ndata: {result}"
Bodies == {"", "  ", JsonBody, EventStreamBody}
HeaderValues == {None, "", "s1", "s2"}

\* bridge.py line 68: the truth value of session_id.
Truthy(v) == v # None /\ v # ""

\* bridge.py line 91: response.text.strip(), for a body that is blank or has
\* no blanks around it.
Strip(b) == IF HasVisible(b) THEN b ELSE ""

\* Lines written to the output: the upstream body, or a JSON-RPC error.
BodyLine(b) == [kind |-> "body", id |-> NoId, text |-> b]
ErrorLine(i, m) == [kind |-> "error", id |-> i, text |-> m]

\* bridge.py lines 44-77 with a break at line 59.
BridgeReadStopsAtGarbage ==
    /\ bridge.pc = "read"
    /\ bridge.nread < MaxLines
    /\ \E line \in Inbound :
         bridge' = [bridge EXCEPT
                       !.pc = IF line.shape \in {"eof", "garbage"} THEN "exit"
                              ELSE IF line.shape = "json" THEN "post" ELSE "read",
                       !.line = line,
                       !.posted = (line.shape = "json"),
                       !.sent = IF line.shape = "json" /\ Truthy(bridge.session_id)
                                  THEN bridge.session_id ELSE None,
                       !.outcome = NoOutcome,
                       !.wrote = 0,
                       !.nread = @ + 1,
                       !.skipped = @ \/ line.shape = "garbage"]
    /\ UNCHANGED orch

\* bridge.py lines 44-77: read a line; end of input leaves the loop, a blank
\* line or one that is not JSON is skipped, anything else is POSTed with the
\* session header when session_id is set.
BridgeRead ==
    /\ bridge.pc = "read"
    /\ bridge.nread < MaxLines
    /\ \E line \in Inbound :
         bridge' = [bridge EXCEPT
                       !.pc = IF line.shape = "eof" THEN "exit"
                              ELSE IF line.shape = "json" THEN "post" ELSE "read",
                       !.line = line,
                       !.posted = (line.shape = "json"),
                       !.sent = IF line.shape = "json" /\ Truthy(bridge.session_id)
                                  THEN bridge.session_id ELSE None,
                       !.outcome = NoOutcome,
                       !.wrote = 0,
                       !.nread = @ + 1,
                       !.skipped = @ \/ line.shape = "garbage"]
    /\ UNCHANGED orch

\* bridge.py lines 90-109: what is written for a response.
Replies(line, status, body) ==
    IF status = 200
      THEN (IF Strip(body) # "" THEN <<BodyLine(Strip(body))>> ELSE <<>>)
      ELSE IF status = 202 THEN <<>>
      ELSE <<ErrorLine(line.id, "Server error")>>

\* bridge.py lines 73-109 with a session id that is captured only once.
BridgeResponseKeepFirst ==
    /\ bridge.pc = "post"
    /\ \E status \in Statuses, body \in Bodies, header \in HeaderValues :
         bridge' = [bridge EXCEPT
                       !.pc = "read",
                       !.session_id = IF header # None /\ @ = None THEN header ELSE @,
                       !.carried = IF header # None THEN header ELSE @,
                       !.outcome = [kind |-> "response", status |-> status,
                                    body |-> body, header |-> header],
                       !.out = @ \o Replies(bridge.line, status, body),
                       !.wrote = Len(Replies(bridge.line, status, body))]
    /\ UNCHANGED orch

\* bridge.py lines 73-109: the response arrives.
BridgeResponse ==
    /\ bridge.pc = "post"
    /\ \E status \in Statuses, body \in Bodies, header \in HeaderValues :
         bridge' = [bridge EXCEPT
                       !.pc = "read",
                       !.session_id = IF header # None THEN header ELSE @,
                       !.carried = IF header # None THEN header ELSE @,
                       !.outcome = [kind |-> "response", status |-> status,
                                    body |-> body, header |-> header],
                       !.out = @ \o Replies(bridge.line, status, body),
                       !.wrote = Len(Replies(bridge.line, status, body))]
    /\ UNCHANGED orch

\* bridge.py lines 111-120: the POST raised an httpx.HTTPError.
BridgeHTTPError ==
    /\ bridge.pc = "post"
    /\ bridge' = [bridge EXCEPT
                     !.pc = "read",
                     !.outcome = [NoOutcome EXCEPT !.kind = "http_error"],
                     !.out = Append(@, ErrorLine(bridge.line.id, "transport")),
                     !.wrote = 1]
    /\ UNCHANGED orch

\* bridge.py lines 122-124: the POST raised something else.
BridgeOtherError ==
    /\ bridge.pc = "post"
    /\ bridge' = [bridge EXCEPT
                     !.pc = "read",
                     !.outcome = [NoOutcome EXCEPT !.kind = "exception"]]
    /\ UNCHANGED orch

NextBridge ==
    \/ BridgeRead
    \/ BridgeResponse
    \/ BridgeHTTPError
    \/ BridgeOtherError

SpecBridge == Init /\ [][NextBridge]_vars

\* ------------------------------------------------------------- fairness
\* The event loop runs every coroutine that can run: a request coroutine that
\* is on the loop or whose await has completed takes its next step, and a
\* connection task's network operation (handshake, discovery, closing)
\* eventually completes or fails.
ProcAdvance(p) == ManagerStep(p) \/ ListStep(p) \/ Finish(p)

TaskAdvance(t) ==
    /\ t \in TaskIds
    /\ (TaskReady(t) \/ TaskFail(t) \/ TaskStop(t) \/ TaskExit(t))

\* No run creates more tasks than one per configured service and request.
TaskSlots == 1..(MaxCalls * Len(AllServices))

SpecLive ==
    /\ Init
    /\ [][Next]_vars
    /\ \A p \in Procs : WF_vars(ProcAdvance(p))
    /\ \A t \in TaskSlots : WF_vars(TaskAdvance(t))

\* The same for the runs of start-up followed by discovery.
BootAdvance(p) ==
    \/ BootSpawn(p)
    \/ GatherRun(p)
    \/ ChildEnd(p)
    \/ BootJoin(p)
    \/ ProcAdvance(p)

SpecBootLive ==
    /\ InitBoot
    /\ [][NextBoot]_vars
    /\ \A p \in Procs : WF_vars(BootAdvance(p))
    /\ \A t \in TaskSlots : WF_vars(TaskAdvance(t))

\* ------------------------------------------------------ connection states
TasksOf(n) == {t \in TaskIds : tasks[t].name = n}

\* The task has not exited.
Live(t) == tasks[t].pc # "done"

\* Connecting: before readiness.  Ready: waiting at line 72 with the stop
\* event clear.  Draining: the stop event is set, or the exit stack is closing.
IsConnecting(t) == tasks[t].pc = "connecting"
IsReady(t) == tasks[t].pc = "ready" /\ ~tasks[t].stop
IsDraining(t) == \/ tasks[t].pc = "ready" /\ tasks[t].stop
                 \/ tasks[t].pc = "closing" /\ tasks[t].ready = "ok"

\* A frame of p that is a connect, a disconnect or a discovery refresh of n.
OperatesOn(p, n) ==
    \E k \in 1..Len(stack[p]) :
        /\ stack[p][k].name = n
        /\ stack[p][k].pc \in {"c_start", "c_create", "c_await", "c_none",
                               "d_start", "d_await", "d_del",
                               "l_await", "l_next"}

\* ------------------------------------------------------------------ claims

\* C1: at every moment at most one connection task that has not exited
\* exists per service name.
C1_OneLiveTaskPerName ==
    \A n \in Names : Cardinality({t \in TasksOf(n) : Live(t)}) <= 1

\* C2: whenever the event loop is free, a session is registered for a name
\* if and only if a connection of that name is Ready.
C2_SessionIffReady ==
    running = None =>
        \A n \in Names : (sessions[n] # NoTask) <=> (\E t \in TasksOf(n) : IsReady(t))

\* C3: when disconnect_service(name) returns, every task of that name that
\* existed when the call was made has exited, and no task, stop event or
\* session is registered for the name.
C3_DisconnectLeavesNothing ==
    [][\A p \in Procs :
          At(p, "d_del") =>
             /\ \A t \in 1..Top(p).i : tasks[t].name = Top(p).name => tasks'[t].pc = "done"
             /\ service_tasks'[Top(p).name] = NoTask
             /\ service_stop_events'[Top(p).name] = NoTask
             /\ sessions'[Top(p).name] = NoTask]_vars

\* C4: at most one connect, disconnect or refresh operation is in flight for
\* a service name at a time.
C4_SerializedPerName ==
    \A n \in Names : Cardinality({p \in Procs : OperatesOn(p, n)}) <= 1

\* C5: every disconnect_service call returns: a request that is inside
\* disconnect_service eventually leaves it.
InDisconnect(p) ==
    stack[p] # <<>> /\ Top(p).pc \in {"d_start", "d_await", "d_del"}

C5_DisconnectReturns ==
    \A p \in Procs : InDisconnect(p) ~> ~InDisconnect(p)

\* C5 witness: a disconnect that had to await a running task is about to return.
C5_Witness ==
    \E p \in Procs : At(p, "d_del") /\ Top(p).t # NoTask

\* C6: a tool call issues at most two downstream calls, and one whose first
\* attempt lost the connection makes exactly one reconnect and then ends with
\* a text (the result or a text error).
C6_OneReconnectThenText ==
    \A p \in Procs :
        obs[p].op = "call_tool" =>
            /\ obs[p].calls <= 2
            /\ (Done(p) /\ obs[p].lost) => (obs[p].reconnects = 1 /\ ret[p].kind = "text")

\* C7: the step in which the 25 s limit ends an awaited downstream call
\* finishes the tool call with the timeout text, issues no further downstream
\* call and leaves the registered task, stop event and session, and every
\* connection task, as they were.
C7_TimeoutNoRetryConnectionKept ==
    [][\A p \in Procs :
          (Suspended(p, "i_await") /\ ret'[p] = TextValue(TimeoutText)) =>
              /\ Done(p)'
              /\ obs'[p].calls = obs[p].calls
              /\ UNCHANGED conn
              /\ UNCHANGED tasks]_vars

\* C7 witness: a tool call has ended with the timeout text while the session
\* it called on is still registered.
C7_Witness ==
    \E p \in Procs :
        /\ Done(p)
        /\ ret[p] = TextValue(TimeoutText)
        /\ obs[p].calls = 1
        /\ \E n \in Names : sessions[n] # NoTask

\* C8: every finished tool call hands back a text.
C8_AlwaysText ==
    \A p \in Procs : (Done(p) /\ obs[p].op = "call_tool") => ret[p].kind = "text"

\* The texts joined from an answer, and whether a text ends in the marker.
Joined(p) == JoinTexts(ExtractTexts(obs[p].answer))

EndsWithMarker(s) ==
    /\ Len(s) >= Len(Marker)
    /\ SubSeq(s, Len(s) - Len(Marker) + 1, Len(s)) = Marker

Answered(p) == Done(p) /\ obs[p].answered

\* C9 as stated: the text of a tool call answered with readable text is the
\* joined text when that has at most 4000 characters and else its first 4000
\* characters followed by the marker; it ends in the marker if and only if it
\* was truncated; it has at most 4000 characters plus the marker.
C9_MarkerIffTruncated ==
    \A p \in Procs :
        (Answered(p) /\ ExtractTexts(obs[p].answer) # <<>>) =>
            /\ Len(Joined(p)) <= MaxChars => ret[p].text = Joined(p)
            /\ Len(Joined(p)) > MaxChars => ret[p].text = SubSeq(Joined(p), 1, MaxChars) \o Marker
            /\ EndsWithMarker(ret[p].text) <=> Len(Joined(p)) > MaxChars
            /\ Len(ret[p].text) <= MaxChars + Len(Marker)

\* C9 amended: an answer without readable text gives the placeholder; else
\* the text is the joined text when that has at most 4000 characters and
\* its first 4000 characters followed by the marker otherwise; a truncated
\* text always ends in the marker (a text that was not truncated may end in
\* it too); the text has at most 4000 characters plus the marker.
C9_TruncatedThenMarker ==
    \A p \in Procs :
        Answered(p) =>
            /\ ExtractTexts(obs[p].answer) = <<>> => ret[p].text = NoTextPlaceholder
            /\ (ExtractTexts(obs[p].answer) # <<>> /\ Len(Joined(p)) <= MaxChars)
                   => ret[p].text = Joined(p)
            /\ Len(Joined(p)) > MaxChars =>
                   /\ ret[p].text = SubSeq(Joined(p), 1, MaxChars) \o Marker
                   /\ EndsWithMarker(ret[p].text)
            /\ Len(ret[p].text) <= MaxChars + Len(Marker)

\* C9 witness: an answer of more than 4000 joined characters was handed back
\* cut to 4000 characters plus the marker.
C9_Witness ==
    \E p \in Procs :
        /\ Answered(p)
        /\ Len(Joined(p)) > MaxChars
        /\ Len(ret[p].text) = MaxChars + Len(Marker)

\* The configured services that are live (session registered, task waiting
\* at line 72) and advertise tool x, by their position in MCP_SERVICES.
LiveOwners(x) ==
    {k \in 1..Len(MCP_SERVICES) :
        /\ sessions[MCP_SERVICES[k]] # NoTask
        /\ IsReady(sessions[MCP_SERVICES[k]])
        /\ x \in advertised[MCP_SERVICES[k]]}

LastOf(S) == CHOOSE k \in S : \A j \in S : j <= k

\* A discovery refresh that follows the start-up has just returned.
Refreshed(p) == Done(p) /\ obs[p].op = "list_tools"

\* C10: when a refresh that follows the start-up returns, every tool that a
\* live service advertises is mapped in the router to the live service
\* advertising it that was refreshed last.
C10_RouterReflectsLiveServices ==
    \A p \in Procs :
        Refreshed(p) =>
            \A x \in Tools :
                LiveOwners(x) # {} => tool_map[x] = MCP_SERVICES[LastOf(LiveOwners(x))]

\* C11: the router maps a tool only to a service that has a Ready connection.
C11_RouteOnlyToReady ==
    \A x \in Tools :
        tool_map[x] # None => \E t \in TasksOf(tool_map[x]) : IsReady(t)

\* connect_downstream is running, and it has just returned.
Booting(p) == obs[p].op = "connect_downstream" /\ stack[p] # <<>>
Booted(p) == Done(p) /\ obs[p].op = "connect_downstream"

\* C12: connect_downstream always returns, and when it does it has not
\* raised, a connection task was created for every configured service, and
\* every service whose own handshake succeeded is Ready with its session
\* registered, whatever happened to the others.
C12_ConnectAllCompletes ==
    /\ [](\A p \in Procs :
            Booted(p) =>
                /\ ret[p].kind # "raise"
                /\ \A n \in Configured :
                      /\ TasksOf(n) # {}
                      /\ \A t \in TasksOf(n) :
                            tasks[t].ready = "ok" => (sessions[n] = t /\ IsReady(t)))
    /\ \A p \in Procs : Booting(p) ~> Booted(p)

\* C12 witness: connect_downstream has returned with one service Ready and
\* the handshake of another failed.
C12_Witness ==
    \E p \in Procs :
        /\ Booted(p)
        /\ \E t \in TaskIds : IsReady(t)
        /\ \E t \in TaskIds : tasks[t].ready = "err"

\* The state of connection t: Disconnected before it is created, after its
\* handshake failed and after it has exited.
StateOf(t) ==
    IF t \notin TaskIds THEN "Disconnected"
    ELSE IF IsConnecting(t) THEN "Connecting"
    ELSE IF IsReady(t) THEN "Ready"
    ELSE IF IsDraining(t) THEN "Draining"
    ELSE "Disconnected"

Transitions ==
    {<<"Disconnected", "Connecting">>, <<"Connecting", "Ready">>, <<"Ready", "Draining">>,
     <<"Draining", "Disconnected">>, <<"Connecting", "Disconnected">>}

\* C13: every step leaves the state of each connection as it is or changes
\* it along Disconnected -> Connecting -> Ready -> Draining -> Disconnected
\* or Connecting -> Disconnected.
C13_StateMachine ==
    [][\A t \in TaskSlots :
          StateOf(t)' # StateOf(t) => <<StateOf(t), StateOf(t)'>> \in Transitions]_vars

\* C14: when get_session returns in a caller that disconnected the service
\* just before, and the handshake of the connection made since succeeded,
\* then the task, the stop event and the session registered for the name
\* are those of one connection created after the disconnect began, that
\* connection is Ready, and every older connection of the name has exited.
C14_RoundTripFresh ==
    \A p \in Procs :
        (/\ At(p, "rt_ret")
         /\ \A t \in TaskIds : t > Top(p).i => tasks[t].ready = "ok")
        => LET n == Top(p).name
               t == service_tasks[n]
           IN /\ t # NoTask
              /\ t > Top(p).i
              /\ service_stop_events[n] = t
              /\ sessions[n] = t
              /\ ret[p] = SessionValue(t)
              /\ IsReady(t)
              /\ \A u \in TasksOf(n) : u # t => ~Live(u)

\* C14 witness: the round trip ended on a fresh connection while an older
\* connection of the name had existed.
C14_Witness ==
    \E p \in Procs :
        /\ At(p, "rt_ret")
        /\ ret[p].kind = "session"
        /\ ret[p].sid > 1
        /\ Top(p).i >= 1
        /\ tasks[Top(p).i].ready = "ok"

\* The line is a JSON-RPC message of the notification namespace.
IsNotification(line) ==
    /\ line.shape = "json"
    /\ Len(line.method) >= Len("notifications/")
    /\ SubSeq(line.method, 1, Len("notifications/")) = "notifications/"

\* The bridge has forwarded the line it read last and is done with it.
Handled == bridge.pc = "read" /\ bridge.posted

\* C15: a notification line is forwarded upstream, and when the bridge is
\* done with it no line was written to the output for it.
C15_NotificationNoReply ==
    IsNotification(bridge.line) =>
        /\ bridge.posted
        /\ Handled => bridge.wrote = 0

\* C16: when the bridge is done with a request line that is no notification
\* it has written exactly one line for it: the upstream body on status 200,
\* and an error with the request's id on a status other than 200 and 202 and
\* on an exception.
C16_RequestOneReply ==
    (Handled /\ ~IsNotification(bridge.line)) =>
        /\ bridge.wrote = 1
        /\ bridge.out # <<>>
        /\ LET reply == bridge.out[Len(bridge.out)]
               o == bridge.outcome
           IN /\ (o.kind = "response" /\ o.status = 200) => reply = BodyLine(Strip(o.body))
              /\ (o.kind # "response" \/ o.status \notin {200, 202})
                     => (reply.kind = "error" /\ reply.id = bridge.line.id)

\* C17 as stated: the session header sent with a request is the one carried
\* by the most recent response that had one, and none is sent before.
C17_SessionHeaderLatest ==
    bridge.pc = "post" => bridge.sent = bridge.carried

\* C17 amended: the session header sent with a request is the one carried
\* by the most recent response that had one if its value is not empty; no
\* header is sent when that value is empty or no response had one.
C17_SessionHeaderLatestNonEmpty ==
    bridge.pc = "post" =>
        bridge.sent = (IF bridge.carried # "" THEN bridge.carried ELSE None)

\* C17 witness: the third request goes out with the token that a response
\* carried.
C17_Witness ==
    /\ bridge.pc = "post"
    /\ bridge.nread = 3
    /\ bridge.sent = "s2"

\* C18: within a chat run (after its conversation is built, lines 385-403)
\* a step that opens a round opens the next one, at most the fifth,
\* and after the first only if the round before accumulated a tool call; a
\* stream that ends without tool calls ends the chat run.
C18_RoundsBounded ==
    [][/\ (chat.round' # chat.round /\ \A p \in Procs : ~At(p, "ch_init")) =>
            /\ chat.round' = chat.round + 1
            /\ chat.round' <= MaxRounds
            /\ chat.round >= 1 => Len(chat.tool_calls) >= 1
       /\ \A p \in Procs :
            (Suspended(p, "ch_stream") /\ chat' # chat /\ chat.tool_calls' = <<>>)
                => Done(p)']_vars

\* C18 witness: a chat run with one tool call in round 1 and none in round
\* 2 has ended after round 2.
C18_Witness ==
    \E p \in Procs :
        /\ Done(p)
        /\ obs[p].op = "chat"
        /\ chat.round = 2
        /\ Len(chat.executed) = 1

\* The conversation since the round was opened is one assistant message
\* with the round's tool calls and one tool message per call, in order and
\* keyed by the call's id.
RoundAppended ==
    LET k == Len(chat.tool_calls)
        m == chat.mark
        c == chat.conversation
    IN /\ Len(c) = m + 1 + k
       /\ c[m + 1].role = "assistant"
       /\ c[m + 1].tool_calls = chat.tool_calls
       /\ \A i \in 1..k :
             /\ c[m + 1 + i].role = "tool"
             /\ c[m + 1 + i].tool_call_id = chat.tool_calls[i].id

\* A round of the chat run of p is over.
RoundOver(p) ==
    /\ chat.round >= 1
    /\ At(p, "ch_open") \/ (Done(p) /\ obs[p].op = "chat")

\* C19: when a round is over the conversation has grown by one assistant
\* message with the round's tool calls followed by one tool message per
\* call, in order and keyed by call id; and no step of a chat run changes or
\* removes a message that is in the conversation.
C19_ConversationAppendOnly ==
    /\ [](\A p \in Procs : RoundOver(p) => RoundAppended)
    /\ [][(\A p \in Procs : ~At(p, "ch_init")) =>
            /\ Len(chat.conversation') >= Len(chat.conversation)
            /\ SubSeq(chat.conversation', 1, Len(chat.conversation)) = chat.conversation]_vars

\* C19 witness: a round with two tool calls is over and the first of them
\* had failed.
C19_Witness ==
    \E p \in Procs :
        /\ At(p, "ch_open")
        /\ Len(chat.tool_calls) = 2
        /\ chat.conversation[chat.mark + 2].content = "Error executing tool: call failed"

\* C20: no tool call accumulated in the fifth round is executed: none is
\* taken up by the loop of line 442 and none is awaited on a session.
C20_NoExecutionAtLimit ==
    /\ \A k \in 1..Len(chat.executed) : chat.executed[k].round < MaxRounds
    /\ \A p \in Procs : Suspended(p, "ch_await") => chat.round < MaxRounds

\* The fifth round's tool call is awaited on a session (line 463).
InvokedAtLimit ==
    \E p \in Procs : Suspended(p, "ch_await") /\ chat.round = MaxRounds

\* The texts call_tool can hand back for a call that reached the downstream
\* tool: the processed answer, the timeout text, or a System Error text
\* (lines 247-283).
InvokeTexts ==
    {FinalText(ExtractTexts(content)) : content \in ChatContents}
        \cup {TimeoutText, ConnectionErrorText, OtherErrorText}

\* C21: the tool message the chat loop appends for a call it awaited on a
\* session carries a text that call_tool returns for such a call.
C21_ChatUsesInvoker ==
    [][\A p \in Procs :
         (Suspended(p, "ch_await") /\ Len(chat.conversation') = Len(chat.conversation) + 1)
             => chat.conversation'[Len(chat.conversation')].content \in InvokeTexts]_vars

\* C27: a tool call whose arguments do not parse as JSON is not answered
\* with an error message in place of being dispatched.
C27_BadArgumentsDispatched ==
    \A k \in 1..Len(chat.conversation) :
        chat.conversation[k].content # "Error executing tool: bad arguments"

\* C22: a call awaited on a session ends in one of two ways.  Either a text
\* is returned and nothing is disconnected, and the text of a connection
\* error is returned only on the second attempt; or, on the first attempt
\* only, the service is disconnected and the loop goes on to the retry.
C22_RetryOnlyFirstConnectionError ==
    [][\A p \in Procs :
         (Suspended(p, "i_await") /\ stack'[p] # stack[p]) =>
            LET f == Top(p)
            IN \/ /\ stack'[p] = Tail(stack[p])
                  /\ ret'[p].kind = "text"
                  /\ UNCHANGED <<service_tasks, service_stop_events, sessions, tasks>>
                  /\ ret'[p].text = ConnectionErrorText => f.i = 1
               \/ /\ f.i = 0
                  /\ obs'[p].lost
                  /\ stack'[p] = <<DisconnectFrame(f.name), [f EXCEPT !.pc = "i_cont"]>>
                                     \o Tail(stack[p])]_vars

\* C22 witness: a tool call whose first attempt met a connection error has
\* retried once and returned the text of the second connection error.
C22_Witness ==
    \E p \in Procs :
        /\ Done(p)
        /\ obs[p].op = "call_tool"
        /\ obs[p].lost
        /\ obs[p].calls = 2
        /\ ret[p] = TextValue(ConnectionErrorText)

\* C23: call_tool calls list_tools() when and only when its first lookup
\* misses, looks the tool up again when the refresh has returned, and raises
\* ValueError only then; within a tool call list_tools() is entered nowhere
\* else.
C23_OneRefreshOnMiss ==
    [][\A p \in Procs :
         LET f == Top(p)
             found == [f EXCEPT !.pc = "i_loop", !.name = tool_map[f.tool]]
         IN /\ (At(p, "i_start") /\ stack'[p] # stack[p]) =>
                  IF tool_map[f.tool] = None
                    THEN stack'[p] = <<ListFrame, [f EXCEPT !.pc = "i_resolve"]>> \o Tail(stack[p])
                    ELSE stack'[p] = <<found>> \o Tail(stack[p])
            /\ (At(p, "i_resolve") /\ stack'[p] # stack[p]) =>
                  IF tool_map[f.tool] = None
                    THEN /\ stack'[p] = Tail(stack[p])
                         /\ ret'[p] = RaiseValue("ValueError: Tool not found.")
                    ELSE stack'[p] = <<found>> \o Tail(stack[p])
            /\ (ret'[p] = RaiseValue("ValueError: Tool not found.") /\ ret'[p] # ret[p])
                  => At(p, "i_resolve")
            /\ (/\ obs[p].op = "call_tool"
                /\ stack'[p] # stack[p]
                /\ stack'[p] # <<>>
                /\ Head(stack'[p]) = ListFrame) => At(p, "i_start")]_vars

\* C23 witness: the refresh of a tool call has connected a service and
\* returned, and the tool is still unknown.
C23_Witness ==
    \E p \in Procs :
        /\ At(p, "i_resolve")
        /\ tool_map[Top(p).tool] = None
        /\ tasks # <<>>

\* C24: when get_session(name) has returned to its caller: if a session was
\* registered for name it is what the caller got and no task was created;
\* else, for a configured name, exactly one task was created, for that name,
\* and the caller got its session if it became ready and none if it failed;
\* for a name that is not configured no task was created and the caller
\* got none.
C24_GetOneConnect ==
    \A p \in Procs :
        At(p, "pg_ret") =>
            LET f == Top(p)
                made == Len(tasks) - f.i
            IN IF f.t # NoTask
                 THEN made = 0 /\ ret[p] = SessionValue(f.t)
               ELSE IF f.name \in Configured
                 THEN /\ made = 1
                      /\ tasks[Len(tasks)].name = f.name
                      /\ ret[p] = IF tasks[Len(tasks)].ready = "ok"
                                    THEN SessionValue(Len(tasks)) ELSE NoValue
               ELSE made = 0 /\ ret[p] = NoValue

\* C24 witness: get_session has returned the session of the one connection
\* it made, for a name whose earlier connection had been disconnected.
C24_Witness ==
    \E p \in Procs :
        /\ At(p, "pg_ret")
        /\ Top(p).t = NoTask
        /\ Top(p).i >= 1
        /\ ret[p] = SessionValue(Len(tasks))

\* C25: when connect_service is about to return none after a failed
\* handshake or discovery, nothing is registered for the name and the
\* readiness future of its task was resolved to the error.
C25_FailedConnectLeavesNothing ==
    \A p \in Procs :
        At(p, "c_none") =>
            /\ service_tasks[Top(p).name] = NoTask
            /\ service_stop_events[Top(p).name] = NoTask
            /\ sessions[Top(p).name] = NoTask
            /\ tasks[Top(p).t].ready = "err"

\* The parts of one kind that the fragments of s carrying index i deliver,
\* concatenated in stream order.
RECURSIVE PartsOf(_, _, _)
PartsOf(s, i, kind) ==
    IF s = <<>> THEN ""
    ELSE (IF Head(s).index = i THEN Head(s)[kind] ELSE "") \o PartsOf(Tail(s), i, kind)

\* The indices the fragments of s carry.
IndicesOf(s) == {s[k].index : k \in 1..Len(s)}

\* The tool calls of the round are final, and the call at every index that
\* a fragment carried is the concatenation of the parts of its fragments.
AccumulatedByIndex ==
    chat.pc = "final" =>
        \A i \in IndicesOf(chat.stream) :
            /\ i + 1 <= Len(chat.tool_calls)
            /\ chat.tool_calls[i + 1] =
                   ToolCall(PartsOf(chat.stream, i, "id"), PartsOf(chat.stream, i, "name"),
                            PartsOf(chat.stream, i, "arguments"))

\* C26: whatever fragments a round's stream carries, in whatever order, the
\* accumulation does not fail and the call at every index a fragment carried
\* is the in-order concatenation of the parts of the fragments of that index.
C26_AccumulateByIndex ==
    /\ chat.pc # "raised"
    /\ AccumulatedByIndex

\* A line has just been read.
ReadsLine == bridge'.nread = bridge.nread + 1

\* C28: reading a line that is not JSON posts nothing, writes nothing and
\* leaves session_id as it was, and the loop is back at its read; a JSON
\* line is posted, whatever was skipped before; end of input, and nothing
\* else read, leaves the loop, and nothing is done after that.
C28_MalformedLineSkipped ==
    [][/\ (ReadsLine /\ bridge'.line = GarbageLine) =>
            /\ bridge'.pc = "read"
            /\ ~bridge'.posted
            /\ bridge'.out = bridge.out
            /\ bridge'.session_id = bridge.session_id
       /\ (ReadsLine /\ bridge'.line.shape = "json") =>
            /\ bridge'.pc = "post"
            /\ bridge'.posted
       /\ ReadsLine => (bridge'.pc = "exit" <=> bridge'.line = EndOfInput)
       /\ bridge.pc = "exit" => bridge' = bridge]_vars

\* C28 witness: three lines were read, one of them was not JSON and was
\* skipped, and the request read last has been posted under the session id
\* stored from the first request and answered with one line.
C28_Witness ==
    /\ bridge.skipped
    /\ bridge.nread = 3
    /\ bridge.pc = "read"
    /\ bridge.line.shape = "json"
    /\ bridge.posted
    /\ bridge.sent = "s1"
    /\ bridge.wrote = 1

\* C29: for an event-stream body that embeds the JSON document after
\* "data: " the bridge writes the one line it writes for the JSON document
\* itself.
C29_EventStreamSameReply ==
    (/\ Handled
     /\ bridge.outcome.kind = "response"
     /\ bridge.outcome.status = 200
     /\ bridge.outcome.body = EventStreamBody)
        => /\ bridge.wrote = 1
           /\ bridge.out[Len(bridge.out)] = BodyLine(Strip(JsonBody))

\* Task t runs its exit cleanup (lines 80-82) in this step: after a failed
\* handshake, or after its wait at line 72 has returned.
CleansUp(t) ==
    /\ tasks'[t].pc \in {"closing", "done"}
    /\ \/ tasks[t].pc = "ready"
       \/ tasks[t].pc = "connecting" /\ tasks'[t].ready = "err"

\* C30: the exit cleanup of a task leaves alone a session that is not its
\* own.
C30_CleanupOwnSessionOnly ==
    [][\A t \in TaskIds :
         (CleansUp(t) /\ sessions[tasks[t].name] # t)
             => sessions'[tasks[t].name] = sessions[tasks[t].name]]_vars

====
